---- MODULE Spec2Model ----
(***************************************************************************)
(* Model of the SoundFlow native-effects boundary:                         *)
(*   - SoundFlowLibraryManager (libeffects.py): load_library and the three *)
(*     wrappers process_compressor / process_ducking /                     *)
(*     free_processing_result;                                             *)
(*   - SoundFlow_SimpleCompressorNode.apply_compression and                *)
(*     SoundFlow_DuckCompressorNode.apply_ducking (nodes.py): the          *)
(*     per-batch / per-channel dispatch loops, the global mutex around the *)
(*     native calls, the result-handle discipline and the fallbacks.       *)
(*                                                                         *)
(* The native library is opaque.  Its sample arithmetic is abstracted to   *)
(* a tagging of samples (Compress adds 1000, Duck adds 2000) so that the   *)
(* provenance and position of every output sample stay observable; its    *)
(* allocator hands out addresses of a finite pool and reports a length     *)
(* that need not equal the main channel's length.                          *)
(***************************************************************************)
EXTENDS Integers, Sequences, FiniteSets, TLC

(* ------------------------------ bounds -------------------------------- *)
MaxLen == 2            \* longest channel (samples) of an input waveform
MaxRuns == 2           \* node executions one thread performs in a row
MaxHandles == 2        \* addresses of the native allocator's pool
MaxGets == 2           \* get_library_manager calls one thread makes
MaxWave == 4           \* longest waveform (samples) given to trim / set length
MaxTenths == 6         \* longest time (tenths of a second), either sign
MaxAudio == 11         \* longest audio (samples) given to _apply_fade
MaxChannels == 3       \* most channels of an audio given to mix / concatenate

Threads == {"t1", "t2"}
BatchCounts == {0, 1, 2}      \* batch sizes of the main waveform
ChanCounts == {1, 2}          \* channel counts
SideBatchCounts == {1, 2}     \* batch sizes of the sidechain waveform
SideLens == {2}               \* sidechain lengths

None == "None"         \* Python None
Null == 0              \* the address of a null POINTER(ProcessingResult) (falsy)

VARIABLES
    lib,        \* SoundFlowLibraryManager.lib  (None or the path loaded)
    loaded,     \* SoundFlowLibraryManager.loaded
    mutex,      \* model_management.interrupt_processing_mutex: holder or None
    live,       \* native heap: addresses of ProcessingResults not yet freed
    memErr,     \* memory errors committed so far: "double_free", "use_after_free"
    api,        \* the last direct call of a manager wrapper and what it did
    th,         \* per thread: position and locals of the running node execution
    gm,         \* libeffects._library_manager, the managers constructed and
                \* each thread's position in get_library_manager
    fx          \* the last call of a sample-arithmetic node function
                \* (trim_audio, set_audio_length) and its result

vars == <<lib, loaded, mutex, live, memErr, api, th, gm, fx>>

(* --------------------------- tensors, buffers -------------------------- *)
\* A waveform tensor [batch, channel, sample] with position-tagged samples.
MakeTensor(B, C, L, base) ==
    [b \in 1..B |-> [c \in 1..C |-> [i \in 1..L |-> base + 100 * b + 10 * c + i]]]

Zeros(n) == [i \in 1..n |-> 0]

\* torch.zeros_like(main_waveform)
ZerosLike(w) ==
    [b \in 1..Len(w) |-> [c \in 1..Len(w[b]) |-> Zeros(Len(w[b][c]))]]

\* Shape of a tensor as far as its nesting shows it.
SameShape(x, y) ==
    /\ Len(x) = Len(y)
    /\ \A b \in 1..Len(x) :
          /\ Len(x[b]) = Len(y[b])
          /\ \A c \in 1..Len(x[b]) : Len(x[b][c]) = Len(y[b][c])

\* A reference to sample storage: a whole flat buffer (b = 0) or the channel
\* (b, c) of a tensor held in field loc of the thread's locals.
Flat(loc) == [loc |-> loc, b |-> 0, c |-> 0]
View(loc, b, c) == [loc |-> loc, b |-> b, c |-> c]

Deref(s, p) == IF p.b = 0 THEN s[p.loc] ELSE s[p.loc][p.b][p.c]

StoreAt(s, p, data) ==
    IF p.b = 0 THEN [s EXCEPT ![p.loc] = data]
    ELSE [s EXCEPT ![p.loc][p.b][p.c] = data]

PrivateLocs == {"chan", "scbuf"}

\* (mutant) the waveform is not cloned: waveform_tensor is the caller's tensor.
CloneAlias(ref) == ref

\* audio['waveform'].clone(): fresh storage (field "work") holding a copy.
Clone(ref) == "work"

\* x.detach().cpu().numpy() shares the tensor's storage; .astype(np.float32)
\* (copy=True by default) yields a new array: the pointer handed to the
\* native code targets the private buffer dst, not the view.
AsTypeF32(view, dst) == Flat(dst)

\* (mutant) the channel is replaced by the result instead of filled from it.
SliceAssignReplace(target, value) == value

\* target[:len(value)] = value on a 1-D torch tensor: the slice is clipped to
\* the target, the value must have the slice's length or broadcast from 1.
SliceFits(target, value) ==
    LET sl == IF Len(value) < Len(target) THEN Len(value) ELSE Len(target)
    IN  Len(value) = sl \/ Len(value) = 1

SliceAssign(target, value) ==
    [i \in 1..Len(target) |-> IF i <= Len(value) THEN value[i] ELSE target[i]]

(* --------------------------- native library --------------------------- *)
\* ProcessCompressor(ptr, length, ...): rewrites the first length samples of
\* the buffer in place.
Compress(buf, n) ==
    [i \in 1..Len(buf) |-> IF i <= n THEN buf[i] + 1000 ELSE buf[i]]

\* The samples of a ProcessingResult of reported length n for a main buffer.
Duck(buf, n) ==
    [i \in 1..n |-> IF i <= Len(buf) THEN buf[i] + 2000 ELSE 2000]

\* Lengths the engine may report in a ProcessingResult.
ReportedLengths == (-1)..(MaxLen + 1)

(* ----------------- SoundFlowLibraryManager (libeffects.py) ------------- *)
\* lib_base_name, the default of __init__ and get_library_manager.
LibBaseName == "lib/effects"

\* lib_names of load_library, by platform (<< >>: unsupported, raises).
LibNames(env) ==
    IF env.os = "nt" THEN <<LibBaseName \o ".dll", "lib" \o LibBaseName \o ".dll">>
    ELSE IF env.os = "posix"
         THEN IF env.system = "Darwin" THEN <<"lib" \o LibBaseName \o ".dylib">>
              ELSE <<"lib" \o LibBaseName \o ".so">>
    ELSE << >>

\* (mutant) a candidate that does not load ends the search.
TryCandidatesOnce(env, names, i, tried) ==
    IF i > Len(names) THEN [lib |-> None, tried |-> tried]
    ELSE IF names[i] \in env.exists /\ names[i] \in env.loadable
         THEN [lib |-> names[i], tried |-> Append(tried, names[i])]
         ELSE [lib |-> None, tried |-> Append(tried, names[i])]

\* The for loop over lib_names from index i on: the first candidate that
\* exists and loads is kept and ends the loop; a failed load is skipped.
RECURSIVE TryCandidates(_, _, _, _)
TryCandidates(env, names, i, tried) ==
    IF i > Len(names) THEN [lib |-> None, tried |-> tried]
    ELSE IF names[i] \in env.exists /\ names[i] \in env.loadable
         THEN [lib |-> names[i], tried |-> Append(tried, names[i])]
         ELSE TryCandidates(env, names, i + 1, Append(tried, names[i]))

\* (mutant) loaded is set before the function signatures are set up.
LoadLibraryEarly(env) ==
    LET names == LibNames(env)
        got == TryCandidates(env, names, 1, << >>)
    IN  IF names = << >>
        THEN [lib |-> None, loaded |-> FALSE, ret |-> FALSE, tried |-> << >>]
        ELSE IF got.lib = None
        THEN [lib |-> None, loaded |-> FALSE, ret |-> FALSE, tried |-> got.tried]
        ELSE IF ~env.symbols
        THEN [lib |-> got.lib, loaded |-> TRUE, ret |-> FALSE, tried |-> got.tried]
        ELSE [lib |-> got.lib, loaded |-> TRUE, ret |-> TRUE, tried |-> got.tried]

\* load_library(): the manager's fields afterwards and the value returned.
LoadLibrary(env) ==
    LET names == LibNames(env)
        got == TryCandidates(env, names, 1, << >>)
    IN  IF names = << >>
        THEN [lib |-> None, loaded |-> FALSE, ret |-> FALSE, tried |-> << >>]
        ELSE IF got.lib = None
        THEN [lib |-> None, loaded |-> FALSE, ret |-> FALSE, tried |-> got.tried]
        ELSE IF ~env.symbols
        THEN [lib |-> got.lib, loaded |-> FALSE, ret |-> FALSE, tried |-> got.tried]
        ELSE [lib |-> got.lib, loaded |-> TRUE, ret |-> TRUE, tried |-> got.tried]

\* The hosts of load_library: os.name, platform.system(), and which of the
\* candidate files of the default base name exist, load, and export the
\* three entry points.
Platforms ==
    {[os |-> "nt", system |-> "Windows"], [os |-> "posix", system |-> "Darwin"],
     [os |-> "posix", system |-> "Linux"], [os |-> "java", system |-> "Java"]}

Candidates(pf) == {LibNames(pf)[i] : i \in 1..Len(LibNames(pf))}

AllEnvs ==
    UNION {[os : {pf.os}, system : {pf.system}, exists : SUBSET Candidates(pf),
            loadable : SUBSET Candidates(pf), symbols : BOOLEAN] : pf \in Platforms}

\* lib_base_name arguments of get_library_manager.
BaseNames == {LibBaseName, "lib/other"}

\* __init__, lines 19-21.
Manager0(base) ==
    [base |-> base, lib |-> None, loaded |-> FALSE, loads |-> 0, ret |-> FALSE,
     tried |-> << >>]

\* load_library() on manager m: self.lib is assigned only by a successful
\* CDLL, self.loaded on every path; the files of the host are those of the
\* default base name.  tried: the candidates the last call went through.
LoadOn(m, env) ==
    LET r == LoadLibrary(IF m.base = LibBaseName THEN env
                         ELSE [env EXCEPT !.exists = {}])
    IN  [m EXCEPT !.lib = IF r.lib # None THEN r.lib ELSE m.lib,
                  !.loaded = r.loaded, !.ret = r.ret, !.loads = m.loads + 1,
                  !.tried = r.tried]

\* Environments of a Linux host: the one candidate may exist, load, and
\* export the three entry points, or not.
LinuxEnvs ==
    LET so == "lib" \o LibBaseName \o ".so"
    IN  [os : {"posix"}, system : {"Linux"}, exists : SUBSET {so},
         loadable : SUBSET {so}, symbols : BOOLEAN]

\* process_compressor: FALSE without a native call unless loaded with a lib.
process_compressor(ld, lb) ==
    IF ~ld \/ lb = None THEN [native |-> FALSE, ret |-> "False"]
    ELSE [native |-> TRUE, ret |-> "True"]

\* (mutant) the guard joins its two tests with "and".
process_ducking_and(ld, lb) ==
    IF ~ld /\ lb = None THEN [native |-> FALSE, ret |-> None]
    ELSE [native |-> TRUE, ret |-> "result"]

\* process_ducking: None without a native call unless loaded with a lib;
\* otherwise whatever ProcessDucking returns.
process_ducking(ld, lb) ==
    IF ~ld \/ lb = None THEN [native |-> FALSE, ret |-> None]
    ELSE [native |-> TRUE, ret |-> "result"]

\* (mutant) the pointer is not tested.
free_processing_result_any(ld, lb, ptr) ==
    [native |-> ld /\ lb # None, ret |-> None]

\* free_processing_result: calls FreeProcessingResult only when loaded, with
\* a lib, and for a non-null pointer.
free_processing_result(ld, lb, ptr) ==
    [native |-> ld /\ lb # None /\ ptr # Null, ret |-> None]

\* A null result_ptr, as ProcessDucking or the wrapper's None give it.
NullResult == [addr |-> Null, length |-> 0, b |-> 0, c |-> 0, data |-> << >>]

(* ------------------------- node executions ---------------------------- *)
\* The arguments both nodes pass on to the engine besides the buffers:
\* threshold_db (dB), ratio, attack_ms and release_ms (ms), mix (in percent
\* of the 0.0-1.0 range), and the Python type of audio["sample_rate"].  The
\* defaults of INPUT_TYPES, lines 726-732.
DefaultParams ==
    [threshold |-> -20, ratio |-> 4, attack |-> 10, release |-> 100,
     mix |-> 100, rate |-> "int"]

\* Values a caller can pass: apply_compression and apply_ducking are plain
\* methods, the ranges of INPUT_TYPES are metadata for the host.
ParamChoices ==
    {DefaultParams,
     [DefaultParams EXCEPT !.ratio = 0],
     [DefaultParams EXCEPT !.attack = 0],
     [DefaultParams EXCEPT !.release = 0],
     [DefaultParams EXCEPT !.mix = 200],
     [DefaultParams EXCEPT !.threshold = -70],
     [DefaultParams EXCEPT !.rate = "float"]}

\* libeffects.py lines 165-166, 206: c_int(sample_rate) raises TypeError for
\* a sample rate that is not an int.
WrapperRaises(p) == p.rate # "int"

\* Lines 772-783 and 876-889: the parameters each node forwards.
Forwarded(kind, p) ==
    IF kind = "compress"
    THEN [threshold |-> p.threshold, ratio |-> p.ratio, attack |-> p.attack,
          release |-> p.release, mix |-> p.mix]
    ELSE [threshold |-> p.threshold, attack |-> p.attack,
          release |-> p.release]

\* Locals of a thread that is not executing a node.
Locals0(runs) ==
    [pc |-> "idle", kind |-> "none", runs |-> runs,
     shape |-> <<0, 0, 0>>, sshape |-> <<0, 0, 0>>,
     mainIn |-> << >>, sideIn |-> << >>,      \* the caller's waveform storage
     wt |-> "mainIn",                          \* storage waveform_tensor refers to
     work |-> << >>,                           \* the clone / output_waveform
     chan |-> << >>, scbuf |-> << >>,          \* channel_data_np / sidechain_np
     ptr |-> Flat("chan"), sptr |-> Flat("scbuf"),
     b |-> 0, c |-> 0,
     result |-> NullResult,                         \* result_ptr
     ret |-> "none",                           \* "orig": the audio passed in
     raised |-> FALSE,                         \* an exception left the node
     exc |-> FALSE,                            \* an exception is propagating
     sgen |-> 0,                               \* sidechain_np arrays made
     params |-> DefaultParams,                 \* the node's FLOAT inputs
     calls |-> << >>,                          \* native calls of this execution
     owned |-> {},                             \* handles received, not yet freed
     gotNull |-> FALSE,                        \* process_ducking gave NULL / None
     nullAt |-> 0,                             \* native calls made by then
     written |-> {}]                           \* output positions filled, and
                                               \* the call each was filled from

Inputs ==
    [kind : {"compress"}, B : BatchCounts, C : ChanCounts, L : 0..MaxLen,
     SB : {0}, SC : {0}, SL : {0}]
    \cup
    [kind : {"duck"}, B : BatchCounts, C : ChanCounts, L : 0..MaxLen,
     SB : SideBatchCounts, SC : ChanCounts, SL : SideLens]

\* The main waveform as the caller passed it.
In0(s) == MakeTensor(s.shape[1], s.shape[2], s.shape[3], 0)
Side0(s) == MakeTensor(s.sshape[1], s.sshape[2], s.sshape[3], 5000)

Set(t, s) == th' = [th EXCEPT ![t] = s]

\* The host calls FUNCTION of a node with an audio input.
Entered(runs, in, p) ==
    [Locals0(runs) EXCEPT
        !.pc = "entry", !.kind = in.kind, !.params = p,
        !.shape = <<in.B, in.C, in.L>>,
        !.sshape = <<in.SB, in.SC, in.SL>>,
        !.mainIn = MakeTensor(in.B, in.C, in.L, 0),
        !.sideIn = MakeTensor(in.SB, in.SC, in.SL, 5000)]

StartWith(t, in, maxRuns) ==
    /\ th[t].pc \in {"idle", "done"}
    /\ th[t].runs < maxRuns
    /\ Set(t, Entered(th[t].runs + 1, in, DefaultParams))
    /\ UNCHANGED <<gm, fx, lib, loaded, mutex, live, memErr, api>>

Start(t) == \E in \in Inputs : StartWith(t, in, MaxRuns)

\* A native call of this execution, as the engine saw it.
Call(fn, s, len) ==
    [fn |-> fn, b |-> s.b, c |-> s.c, loc |-> s.ptr.loc, len |-> len,
     sloc |-> s.sptr.loc, slen |-> Len(Deref(s, s.sptr)),
     sbuf |-> Deref(s, s.sptr), sgen |-> s.sgen,
     params |-> Forwarded(s.kind, s.params)]

Return(s, what) == [s EXCEPT !.pc = "done", !.ret = what]

\* An exception leaves the node: nothing is returned.
Raise(s) == [s EXCEPT !.pc = "done", !.raised = TRUE]

\* Lines 764-768: num_samples == 0 skips the channel.
IsEmptyChannel(buf) == Len(buf) = 0

(* apply_compression *)
\* Lines 741-746: the not-loaded fallback, else the clone.
Compress_Entry(t) ==
    LET s == th[t] IN
    /\ s.pc = "entry" /\ s.kind = "compress"
    /\ IF ~loaded
       THEN Set(t, Return(s, "orig"))
       ELSE Set(t, [s EXCEPT !.pc = "c_loop", !.wt = Clone("mainIn"),
                             !.work = s.mainIn, !.b = 1, !.c = 1])
    /\ UNCHANGED <<gm, fx, lib, loaded, mutex, live, memErr, api>>

\* Lines 754-768: the loop headers, the channel's private copy, the skip of
\* an empty channel; lines 788-789 when both loops are exhausted.
Compress_Channel(t) ==
    LET s == th[t]
        w == s[s.wt]
    IN
    /\ s.pc = "c_loop"
    /\ IF s.b > Len(w)
       THEN Set(t, Return(s, "processed"))
       ELSE IF s.c > Len(w[s.b])
       THEN Set(t, [s EXCEPT !.b = s.b + 1, !.c = 1])
       ELSE LET view == View(s.wt, s.b, s.c)
                p == AsTypeF32(view, "chan")
                s1 == [s EXCEPT !.chan = Deref(s, view), !.ptr = p]
            IN  IF IsEmptyChannel(Deref(s1, p))
                THEN Set(t, [s1 EXCEPT !.c = s.c + 1])
                ELSE Set(t, [s1 EXCEPT !.pc = "c_lock"])
    /\ UNCHANGED <<gm, fx, lib, loaded, mutex, live, memErr, api>>

\* (mutant) the native call is made without taking the mutex.
Compress_AcquireNoLock(t) ==
    /\ th[t].pc = "c_lock"
    /\ Set(t, [th[t] EXCEPT !.pc = "c_call"])
    /\ UNCHANGED <<gm, fx, lib, loaded, mutex, live, memErr, api>>

\* Line 771: with interrupt_processing_mutex (enter).
Compress_Acquire(t) ==
    /\ th[t].pc = "c_lock"
    /\ mutex = None
    /\ mutex' = t
    /\ Set(t, [th[t] EXCEPT !.pc = "c_call"])
    /\ UNCHANGED <<gm, fx, lib, loaded, live, memErr, api>>

\* Lines 772-783 with process_compressor: the wrapper's guard, then the
\* thread is inside ProcessCompressor.
Compress_Call(t) ==
    LET s == th[t]
        w == process_compressor(loaded, lib)
    IN
    /\ s.pc = "c_call"
    /\ IF ~w.native
       THEN Set(t, [s EXCEPT !.pc = "c_unlock"])
       ELSE IF WrapperRaises(s.params)
       THEN Set(t, [s EXCEPT !.pc = "c_unlock", !.exc = TRUE])
       ELSE Set(t, [s EXCEPT !.pc = "c_native",
                     !.calls = Append(s.calls,
                         Call("ProcessCompressor", s, Len(Deref(s, s.ptr))))])
    /\ UNCHANGED <<gm, fx, lib, loaded, mutex, live, memErr, api>>

\* ProcessCompressor returns: the buffer behind the pointer was rewritten.
Compress_NativeReturn(t) ==
    LET s == th[t]
        len == s.calls[Len(s.calls)].len
    IN
    /\ s.pc = "c_native"
    /\ Set(t, [StoreAt(s, s.ptr, Compress(Deref(s, s.ptr), len))
                  EXCEPT !.pc = "c_unlock"])
    /\ UNCHANGED <<gm, fx, lib, loaded, mutex, live, memErr, api>>

\* (mutant) the with block is left without releasing the mutex.
Compress_ReleaseKeep(t) ==
    /\ th[t].pc = "c_unlock"
    /\ mutex' = mutex
    /\ Set(t, IF th[t].exc THEN Raise(th[t])
                           ELSE [th[t] EXCEPT !.pc = "c_write"])
    /\ UNCHANGED <<gm, fx, lib, loaded, live, memErr, api>>

\* Line 771: with interrupt_processing_mutex (exit), on return and on an
\* exception alike; the exception then leaves apply_compression.
Compress_Release(t) ==
    /\ th[t].pc = "c_unlock"
    /\ mutex' = IF mutex = t THEN None ELSE mutex
    /\ Set(t, IF th[t].exc THEN Raise(th[t])
                           ELSE [th[t] EXCEPT !.pc = "c_write"])
    /\ UNCHANGED <<gm, fx, lib, loaded, live, memErr, api>>

\* (mutant) the processed channel is written to channel 0 of the batch item.
Compress_WriteBackFirst(t) ==
    LET s == th[t] IN
    /\ s.pc = "c_write"
    /\ Set(t, [StoreAt(s, View(s.wt, s.b, 1), Deref(s, s.ptr))
                  EXCEPT !.pc = "c_loop", !.c = s.c + 1])
    /\ UNCHANGED <<gm, fx, lib, loaded, mutex, live, memErr, api>>

\* Line 786: waveform_tensor[b, c] = torch.from_numpy(channel_data_np).
Compress_WriteBack(t) ==
    LET s == th[t] IN
    /\ s.pc = "c_write"
    /\ Set(t, [StoreAt(s, View(s.wt, s.b, s.c), Deref(s, s.ptr))
                  EXCEPT !.pc = "c_loop", !.c = s.c + 1])
    /\ UNCHANGED <<gm, fx, lib, loaded, mutex, live, memErr, api>>

CompressStep(t) ==
    \/ Compress_Entry(t)
    \/ Compress_Channel(t)
    \/ Compress_Acquire(t)
    \/ Compress_Call(t)
    \/ Compress_NativeReturn(t)
    \/ Compress_Release(t)
    \/ Compress_WriteBack(t)

(* apply_ducking *)
RECURSIVE SumAt(_, _, _)
SumAt(chs, c, i) == IF c = 0 THEN 0 ELSE chs[c][i] + SumAt(chs, c - 1, i)

\* (mutant) the channels are summed and not divided.
MonoSum(chs) ==
    [i \in 1..Len(chs[1]) |-> SumAt(chs, Len(chs), i)]

\* torch.sum(sidechain_waveform[b], dim=0) / shape[1]
Mono(chs) ==
    [i \in 1..Len(chs[1]) |-> SumAt(chs, Len(chs), i) \div Len(chs)]

Pool == 1..MaxHandles

\* (mutant) a NULL result skips the channel.
OnNullResultContinue(s) == [s EXCEPT !.pc = "d_chan", !.c = s.c + 1]

\* Lines 913-915: a NULL result returns main_audio.
OnNullResult(s) == Return(s, "orig")

\* (mutant) a failed copy skips the channel.
OnCopyErrorContinue(s) == [s EXCEPT !.pc = "d_chan", !.c = s.c + 1]

\* (mutant) a failed copy is not caught.
OnCopyErrorRaise(s) == Raise(s)

\* Lines 909-912: an exception while the result is read or copied returns
\* main_audio.
OnCopyError(s) == Return(s, "orig")

\* Lines 921-923: any other exception returns main_audio.
OnOuterError(s) == Return(s, "orig")

\* Lines 825-838: the not-loaded fallback, else the zeroed output tensor.
Duck_Entry(t) ==
    LET s == th[t] IN
    /\ s.pc = "entry" /\ s.kind = "duck"
    /\ IF ~loaded
       THEN Set(t, Return(s, "orig"))
       ELSE Set(t, [s EXCEPT !.pc = "d_batch", !.wt = "work",
                             !.work = ZerosLike(s.mainIn), !.b = 1, !.c = 1])
    /\ UNCHANGED <<gm, fx, lib, loaded, mutex, live, memErr, api>>

\* Lines 841-859: the batch loop header and the mono sidechain buffer of the
\* batch item (an IndexError when the sidechain has no such batch item goes
\* to the outer except, line 921); lines 918-919 when the loop is exhausted.
Duck_Batch(t) ==
    LET s == th[t] IN
    /\ s.pc = "d_batch"
    /\ IF s.b > Len(s.mainIn)
       THEN Set(t, Return(s, "processed"))
       ELSE IF s.b > Len(s.sideIn)
       THEN Set(t, OnOuterError(s))
       ELSE LET multi == s.sshape[2] > 1
                view == IF multi THEN Flat("scbuf") ELSE View("sideIn", s.b, 1)
                mono == IF multi THEN Mono(s.sideIn[s.b]) ELSE s.sideIn[s.b][1]
            IN  Set(t, [s EXCEPT !.scbuf = mono, !.sgen = s.sgen + 1,
                                 !.sptr = AsTypeF32(view, "scbuf"),
                                 !.c = 1, !.pc = "d_chan"])
    /\ UNCHANGED <<gm, fx, lib, loaded, mutex, live, memErr, api>>

\* Lines 862-872: the channel loop header and the channel's private copy.
Duck_Channel(t) ==
    LET s == th[t] IN
    /\ s.pc = "d_chan"
    /\ IF s.c > Len(s.mainIn[s.b])
       THEN Set(t, [s EXCEPT !.b = s.b + 1, !.pc = "d_batch"])
       ELSE LET view == View("mainIn", s.b, s.c)
            IN  Set(t, [s EXCEPT !.chan = Deref(s, view),
                                 !.ptr = AsTypeF32(view, "chan"),
                                 !.pc = "d_lock"])
    /\ UNCHANGED <<gm, fx, lib, loaded, mutex, live, memErr, api>>

\* Line 875: with interrupt_processing_mutex (enter).
Duck_Acquire(t) ==
    /\ th[t].pc = "d_lock"
    /\ mutex = None
    /\ mutex' = t
    /\ Set(t, [th[t] EXCEPT !.pc = "d_call"])
    /\ UNCHANGED <<gm, fx, lib, loaded, live, memErr, api>>

\* Lines 876-889 with process_ducking: the wrapper's guard, then the thread
\* is inside ProcessDucking.
Duck_Call(t) ==
    LET s == th[t]
        w == process_ducking(loaded, lib)
    IN
    /\ s.pc = "d_call"
    /\ IF ~w.native
       THEN Set(t, [s EXCEPT !.pc = "d_unlock", !.result = NullResult,
                             !.gotNull = TRUE, !.nullAt = Len(s.calls)])
       ELSE IF WrapperRaises(s.params)
       THEN Set(t, [s EXCEPT !.pc = "d_unlock", !.exc = TRUE])
       ELSE Set(t, [s EXCEPT !.pc = "d_native",
                     !.calls = Append(s.calls,
                         Call("ProcessDucking", s, Len(Deref(s, s.ptr))))])
    /\ UNCHANGED <<gm, fx, lib, loaded, mutex, live, memErr, api>>

\* ProcessDucking returns NULL (allocation failure), or a newly allocated
\* ProcessingResult whose reported length is the engine's to choose.
Duck_NativeReturn(t) ==
    LET s == th[t]
        last == s.calls[Len(s.calls)]
    IN
    /\ s.pc = "d_native"
    /\ \/ /\ Set(t, [s EXCEPT !.pc = "d_unlock", !.result = NullResult,
                              !.gotNull = TRUE, !.nullAt = Len(s.calls)])
          /\ live' = live
       \/ \E a \in Pool \ live, n \in ReportedLengths :
             /\ Set(t, [s EXCEPT !.pc = "d_unlock",
                         !.result = [addr |-> a, length |-> n,
                                     b |-> last.b, c |-> last.c,
                                     data |-> Duck(Deref(s, s.ptr), n)],
                         !.owned = s.owned \cup {a}])
             /\ live' = live \cup {a}
    /\ UNCHANGED <<gm, fx, lib, loaded, mutex, memErr, api>>

\* Line 875: with interrupt_processing_mutex (exit), on return and on an
\* exception alike; the exception is caught at line 921.
Duck_Release(t) ==
    /\ th[t].pc = "d_unlock"
    /\ mutex' = IF mutex = t THEN None ELSE mutex
    /\ Set(t, IF th[t].exc THEN OnOuterError(th[t])
                           ELSE [th[t] EXCEPT !.pc = "d_result"])
    /\ UNCHANGED <<gm, fx, lib, loaded, live, memErr, api>>

\* (mutant) only a negative length raises.
CopyRaisesNegative(target, n) == n < 0

\* np.ctypeslib.as_array(result.audio_ptr, shape=(n,)) raises for n < 0; the
\* slice assignment of line 905 raises when the copy does not fit.
CopyRaises(target, n) == n < 0 \/ ~SliceFits(target, Zeros(n))

\* Lines 891-905 and 909-915: a NULL result returns main_audio; otherwise the
\* result is read and its samples copied into output_waveform[b, c], and an
\* exception on the way returns main_audio (line 912).
Duck_Result(t) ==
    LET s == th[t]
        r == s.result
        cur == s.work[s.b][s.c]
    IN
    /\ s.pc = "d_result"
    /\ IF r.addr = Null
       THEN /\ Set(t, OnNullResult(s))
            /\ memErr' = memErr
       ELSE /\ memErr' = IF r.addr \in live THEN memErr
                         ELSE memErr \cup {"use_after_free"}
            /\ IF CopyRaises(cur, r.length)
               THEN Set(t, OnCopyError(s))
               ELSE Set(t, [s EXCEPT !.pc = "d_free",
                             !.work[s.b][s.c] = SliceAssign(cur, r.data),
                             !.written = s.written \cup
                                 {[at |-> <<s.b, s.c>>, from |-> <<r.b, r.c>>]}])
    /\ UNCHANGED <<gm, fx, lib, loaded, mutex, live, api>>

\* Line 908 with free_processing_result: the wrapper's guard, then the
\* thread is inside FreeProcessingResult.
Duck_Free(t) ==
    LET s == th[t]
        w == free_processing_result(loaded, lib, s.result.addr)
    IN
    /\ s.pc = "d_free"
    /\ IF w.native
       THEN Set(t, [s EXCEPT !.pc = "d_freeing",
                     !.calls = Append(s.calls,
                         Call("FreeProcessingResult", s, 0))])
       ELSE Set(t, [s EXCEPT !.pc = "d_chan", !.c = s.c + 1])
    /\ UNCHANGED <<gm, fx, lib, loaded, mutex, live, memErr, api>>

\* (mutant) the result is released a second time (as from a finally clause).
Duck_FreeReturnAgain(t) ==
    LET s == th[t]
        a == s.result.addr
    IN
    /\ s.pc = "d_freeing"
    /\ live' = live \ {a}
    /\ memErr' = IF a \in live THEN memErr ELSE memErr \cup {"double_free"}
    /\ Set(t, [s EXCEPT !.pc = "d_free", !.owned = s.owned \ {a}])
    /\ UNCHANGED <<gm, fx, lib, loaded, mutex, api>>

\* FreeProcessingResult returns: the result's memory is released; the inner
\* loop goes on with the next channel.
Duck_FreeReturn(t) ==
    LET s == th[t]
        a == s.result.addr
    IN
    /\ s.pc = "d_freeing"
    /\ live' = live \ {a}
    /\ memErr' = IF a \in live THEN memErr ELSE memErr \cup {"double_free"}
    /\ Set(t, [s EXCEPT !.pc = "d_chan", !.c = s.c + 1,
                        !.owned = s.owned \ {a}])
    /\ UNCHANGED <<gm, fx, lib, loaded, mutex, api>>

DuckStep(t) ==
    \/ Duck_Entry(t)
    \/ Duck_Batch(t)
    \/ Duck_Channel(t)
    \/ Duck_Acquire(t)
    \/ Duck_Call(t)
    \/ Duck_NativeReturn(t)
    \/ Duck_Release(t)
    \/ Duck_Result(t)
    \/ Duck_Free(t)
    \/ Duck_FreeReturn(t)

(* direct calls of the manager's wrappers *)
\* No direct call so far; held: results a direct caller received and still holds.
Api0 == [fn |-> "none", native |-> FALSE, arg |-> Null, ret |-> None, held |-> {}]

NoNodeRunning == \A t \in Threads : th[t].pc \in {"idle", "done"}

\* A client calls process_compressor on a buffer of its own.
Api_ProcessCompressor ==
    LET w == process_compressor(loaded, lib) IN
    /\ NoNodeRunning
    /\ api' = [api EXCEPT !.fn = "process_compressor", !.native = w.native,
                          !.arg = Null, !.ret = w.ret]
    /\ UNCHANGED <<gm, fx, lib, loaded, mutex, live, memErr, th>>

\* A client calls process_ducking and keeps the result it gets.
Api_ProcessDucking ==
    LET w == process_ducking(loaded, lib) IN
    /\ NoNodeRunning
    /\ IF ~w.native
       THEN /\ api' = [api EXCEPT !.fn = "process_ducking", !.native = FALSE,
                                  !.arg = Null, !.ret = w.ret]
            /\ live' = live
       ELSE \E a \in {Null} \cup (Pool \ live) :
               /\ api' = [api EXCEPT !.fn = "process_ducking", !.native = TRUE,
                                     !.arg = Null, !.ret = a,
                                     !.held = IF a = Null THEN @ ELSE @ \cup {a}]
               /\ live' = IF a = Null THEN live ELSE live \cup {a}
    /\ UNCHANGED <<gm, fx, lib, loaded, mutex, memErr, th>>

\* A client calls free_processing_result with NULL or a result it holds.
Api_FreeProcessingResult ==
    /\ NoNodeRunning
    /\ \E ptr \in {Null} \cup api.held :
          LET w == free_processing_result(loaded, lib, ptr) IN
          /\ api' = [api EXCEPT !.fn = "free_processing_result",
                                !.native = w.native, !.arg = ptr, !.ret = w.ret,
                                !.held = IF w.native THEN @ \ {ptr} ELSE @]
          /\ live' = IF w.native THEN live \ {ptr} ELSE live
          /\ memErr' = IF w.native /\ ptr \notin live
                       THEN memErr \cup {"double_free"} ELSE memErr
    /\ UNCHANGED <<gm, fx, lib, loaded, mutex, th>>

(* get_library_manager *)
\* Line 244: if _library_manager is None.
Get_Check(t) ==
    /\ gm.pc[t] = "idle"
    /\ gm.gets[t] < MaxGets
    /\ \E base \in BaseNames :
          gm' = [gm EXCEPT !.gets[t] = @ + 1,
                           !.pc[t] = IF gm.ref = 0 THEN "construct" ELSE "return",
                           !.base[t] = IF gm.ref = 0 THEN base ELSE None]
    /\ UNCHANGED <<fx, lib, loaded, mutex, live, memErr, api, th>>

\* Line 245: _library_manager = SoundFlowLibraryManager(lib_base_name).
Get_Construct(t) ==
    /\ gm.pc[t] = "construct"
    /\ gm' = [gm EXCEPT !.mgrs = Append(@, Manager0(gm.base[t])),
                        !.ref = Len(gm.mgrs) + 1,
                        !.pc[t] = "load", !.base[t] = None]
    /\ lib' = None
    /\ loaded' = FALSE
    /\ UNCHANGED <<fx, mutex, live, memErr, api, th>>

\* Line 246: _library_manager.load_library(), on the manager the global
\* names at that moment.
Get_Load(t) ==
    LET m == LoadOn(gm.mgrs[gm.ref], gm.env) IN
    /\ gm.pc[t] = "load"
    /\ gm' = [gm EXCEPT !.mgrs[gm.ref] = m, !.loads = @ + 1, !.pc[t] = "return"]
    /\ lib' = m.lib
    /\ loaded' = m.loaded
    /\ UNCHANGED <<fx, mutex, live, memErr, api, th>>

\* Line 247: return _library_manager.
Get_Return(t) ==
    /\ gm.pc[t] = "return"
    /\ gm' = [gm EXCEPT !.got = @ \cup {gm.ref}, !.pc[t] = "idle"]
    /\ UNCHANGED <<fx, lib, loaded, mutex, live, memErr, api, th>>

(* trim_audio, set_audio_length (nodes.py) *)
\* Times are in steps of 0.1 s, the step of the FLOAT inputs.
StepsPerSecond == 10

SampleRates == {5, 10}

\* int(x) for x = a / b, b > 0: truncation toward zero.
Trunc(a, b) == IF a >= 0 THEN a \div b ELSE -((-a) \div b)

\* _get_samples_from_seconds: int(seconds * sample_rate).
get_samples_from_seconds(tenths, sample_rate) ==
    Trunc(tenths * sample_rate, StepsPerSecond)

Min(a, b) == IF a <= b THEN a ELSE b
Max(a, b) == IF a >= b THEN a ELSE b

\* A slice bound as Python resolves it for a sequence of length n: a
\* negative bound counts from the end, and the result is clamped to 0..n.
Bound(k, n) == IF k < 0 THEN Max(0, n + k) ELSE Min(k, n)

\* seq[lo:hi]
Slice(seq, lo, hi) ==
    LET a == Bound(lo, Len(seq))
        b == Bound(hi, Len(seq))
    IN  IF a >= b THEN << >> ELSE SubSeq(seq, a + 1, b)

\* waveform[:, :, lo:hi]
SliceSamples(w, lo, hi) ==
    [b \in 1..Len(w) |-> [c \in 1..Len(w[b]) |-> Slice(w[b][c], lo, hi)]]

\* torch.nn.functional.pad(waveform, (0, padding), "constant", 0)
PadSamples(w, padding) ==
    [b \in 1..Len(w) |-> [c \in 1..Len(w[b]) |-> w[b][c] \o Zeros(padding)]]

\* (mutant) end_samples is clamped to the audio but not to start_samples.
trim_audio_end_unclamped(w, sample_rate, start, end) ==
    LET total_samples == Len(w[1][1])
        start0 == get_samples_from_seconds(start, sample_rate)
        end0 == IF end <= 0 THEN total_samples
                ELSE get_samples_from_seconds(end, sample_rate)
        start_samples == Max(0, Min(start0, total_samples))
        end_samples == Min(end0, total_samples)
    IN  [start_samples |-> start_samples, end_samples |-> end_samples,
         waveform |-> SliceSamples(w, start_samples, end_samples)]

\* trim_audio, lines 696-710.
trim_audio(w, sample_rate, start, end) ==
    LET total_samples == Len(w[1][1])
        start0 == get_samples_from_seconds(start, sample_rate)
        end0 == IF end <= 0 THEN total_samples
                ELSE get_samples_from_seconds(end, sample_rate)
        start_samples == Max(0, Min(start0, total_samples))
        end_samples == Max(start_samples, Min(end0, total_samples))
    IN  [start_samples |-> start_samples, end_samples |-> end_samples,
         waveform |-> SliceSamples(w, start_samples, end_samples)]

\* (mutant) the padding is the target length, not the missing part.
set_audio_length_pad_target(w, sample_rate, length) ==
    LET target_samples == get_samples_from_seconds(length, sample_rate)
        current_samples == Len(w[1][1])
    IN  [target_samples |-> target_samples,
         waveform |->
            IF current_samples > target_samples
            THEN SliceSamples(w, 0, target_samples)
            ELSE IF current_samples < target_samples
            THEN PadSamples(w, target_samples)
            ELSE w]

\* set_audio_length, lines 607-625.
set_audio_length(w, sample_rate, length) ==
    LET target_samples == get_samples_from_seconds(length, sample_rate)
        current_samples == Len(w[1][1])
    IN  [target_samples |-> target_samples,
         waveform |->
            IF current_samples > target_samples
            THEN SliceSamples(w, 0, target_samples)
            ELSE IF current_samples < target_samples
            THEN PadSamples(w, target_samples - current_samples)
            ELSE w]

\* The waveforms and times the two functions are called with.
Waves == {MakeTensor(1, 2, L, 0) : L \in 0..MaxWave}
Times == (-MaxTenths)..MaxTenths

\* A call that has not been made yet, with its arguments.
FxArgs ==
    [fn : {"none"}, w : Waves, sample_rate : SampleRates,
     start : Times, end : Times, length : Times,
     out : {<< >>}, start_samples : {0}, end_samples : {0}, target_samples : {0}]

Fx_TrimAudio ==
    LET r == trim_audio(fx.w, fx.sample_rate, fx.start, fx.end) IN
    /\ fx.fn = "none"
    /\ fx' = [fx EXCEPT !.fn = "trim_audio", !.out = r.waveform,
                        !.start_samples = r.start_samples,
                        !.end_samples = r.end_samples]
    /\ UNCHANGED <<gm, lib, loaded, mutex, live, memErr, api, th>>

Fx_SetAudioLength ==
    LET r == set_audio_length(fx.w, fx.sample_rate, fx.length) IN
    /\ fx.fn = "none"
    /\ fx' = [fx EXCEPT !.fn = "set_audio_length", !.out = r.waveform,
                        !.target_samples = r.target_samples]
    /\ UNCHANGED <<gm, lib, loaded, mutex, live, memErr, api, th>>

(* _apply_fade (nodes.py) *)
\* The samples waveform[..., :n] and waveform[..., -n:] select (n > 0) of an
\* audio of L samples, as sets of positions.
HeadRegion(L, n) == 1..Min(n, L)
TailRegion(L, n) == (L - Min(n, L) + 1)..L

\* (mutant) the fades may take the whole audio: no tenth is kept back.
_apply_fade_whole(audio_length, fade_in, fade_out) ==
    LET total_requested == fade_in + fade_out
        adjust == ~(fade_in = 0 /\ fade_out = 0) /\ total_requested >= audio_length
        max_total_fade == Max(1, audio_length)
        both == fade_in > 0 /\ fade_out > 0
        fade_in_samples ==
            IF ~adjust THEN fade_in
            ELSE IF both THEN Trunc(fade_in * max_total_fade, total_requested)
            ELSE IF fade_in > 0 THEN Min(fade_in, max_total_fade)
            ELSE fade_in
        fade_out_samples ==
            IF ~adjust THEN fade_out
            ELSE IF both THEN Trunc(fade_out * max_total_fade, total_requested)
            ELSE IF fade_in > 0 THEN fade_out
            ELSE IF fade_out > 0 THEN Min(fade_out, max_total_fade)
            ELSE fade_out
    IN  [adjusted |-> adjust,
         fade_in_samples |-> fade_in_samples,
         fade_out_samples |-> fade_out_samples,
         in_region |-> IF fade_in_samples > 0
                       THEN HeadRegion(audio_length, fade_in_samples) ELSE {},
         out_region |-> IF fade_out_samples > 0
                        THEN TailRegion(audio_length, fade_out_samples) ELSE {},
         raised |-> fade_in_samples > audio_length \/ fade_out_samples > audio_length]

\* _apply_fade, lines 54-85: the fade lengths after the automatic adjustment
\* (int(audio_length * 0.9) is 9 * audio_length \div 10, and int((a / t) * m)
\* is a * m \div t, for the lengths used here), the positions each fade
\* multiplies, and whether the multiplication raises (a fade longer than
\* the audio does not fit the slice).
_apply_fade(audio_length, fade_in, fade_out) ==
    LET total_requested == fade_in + fade_out
        adjust == ~(fade_in = 0 /\ fade_out = 0) /\ total_requested >= audio_length
        max_total_fade == Max(1, Trunc(audio_length * 9, 10))
        both == fade_in > 0 /\ fade_out > 0
        fade_in_samples ==
            IF ~adjust THEN fade_in
            ELSE IF both THEN Trunc(fade_in * max_total_fade, total_requested)
            ELSE IF fade_in > 0 THEN Min(fade_in, max_total_fade)
            ELSE fade_in
        fade_out_samples ==
            IF ~adjust THEN fade_out
            ELSE IF both THEN Trunc(fade_out * max_total_fade, total_requested)
            ELSE IF fade_in > 0 THEN fade_out
            ELSE IF fade_out > 0 THEN Min(fade_out, max_total_fade)
            ELSE fade_out
    IN  [adjusted |-> adjust,
         fade_in_samples |-> fade_in_samples,
         fade_out_samples |-> fade_out_samples,
         in_region |-> IF fade_in_samples > 0
                       THEN HeadRegion(audio_length, fade_in_samples) ELSE {},
         out_region |-> IF fade_out_samples > 0
                        THEN TailRegion(audio_length, fade_out_samples) ELSE {},
         raised |-> fade_in_samples > audio_length \/ fade_out_samples > audio_length]

\* The audio lengths and requested fade lengths _apply_fade is called with.
FadeCounts == (-1)..(MaxAudio + 1)

FadeArgs ==
    [fn : {"none"}, audio_length : 1..MaxAudio,
     fade_in : FadeCounts, fade_out : FadeCounts,
     out : {[adjusted |-> FALSE, fade_in_samples |-> 0, fade_out_samples |-> 0,
             in_region |-> {}, out_region |-> {}, raised |-> FALSE]}]

Fx_ApplyFade ==
    /\ fx.fn = "none"
    /\ fx' = [fx EXCEPT !.fn = "_apply_fade",
                        !.out = _apply_fade(fx.audio_length, fx.fade_in, fx.fade_out)]
    /\ UNCHANGED <<gm, lib, loaded, mutex, live, memErr, api, th>>

(* mix_audio, concatenate_audio (nodes.py) *)
\* waveform.shape[1] and waveform.shape[-1] of a waveform with one batch item.
Channels(w) == Len(w[1])
Samples(w) == Len(w[1][1])

\* waveform.repeat(1, n, 1): the channels are tiled n times.
RepeatChannels(w, n) ==
    [b \in 1..Len(w) |->
        [k \in 1..(Len(w[b]) * n) |-> w[b][((k - 1) % Len(w[b])) + 1]]]

\* waveform[:, :n, :]
FirstChannels(w, n) ==
    [b \in 1..Len(w) |-> Slice(w[b], 0, n)]

\* _match_audio_length, lines 136-148: the shorter waveform is padded.
match_audio_length(w1, w2) ==
    IF Samples(w1) > Samples(w2)
    THEN <<w1, PadSamples(w2, Samples(w1) - Samples(w2))>>
    ELSE IF Samples(w2) > Samples(w1)
    THEN <<PadSamples(w1, Samples(w2) - Samples(w1)), w2>>
    ELSE <<w1, w2>>

\* Lines 173-181 of mix_audio and 529-535 of concatenate_audio, the same
\* statements: "Handle different channel counts".
AdjustChannels(w1, w2) ==
    IF Channels(w1) = Channels(w2) THEN <<w1, w2>>
    ELSE IF Channels(w1) > Channels(w2)
    THEN <<w1, RepeatChannels(w2, Channels(w1))>>
    ELSE <<FirstChannels(w1, Channels(w2)), w2>>

\* Two sizes of a dimension that elementwise arithmetic accepts.
Broadcastable(m, n) == m = n \/ m = 1 \/ n = 1

\* mix_audio, lines 169-185: the two waveforms after the adjustments and
\* whether (1.0 - mix_value) * waveform1 + mix_value * waveform2 raises.
mix_audio(w1, w2) ==
    LET m == match_audio_length(w1, w2)
        a == AdjustChannels(m[1], m[2])
    IN  [waveform1 |-> a[1], waveform2 |-> a[2],
         raised |-> ~Broadcastable(Channels(a[1]), Channels(a[2]))]

\* concatenate_audio, lines 529-560: the two waveforms after the adjustment
\* and whether the concatenation raises: every path of _apply_crossfade
\* ends in a torch.cat of a part of waveform1 and a part of waveform2 along
\* the sample axis, which needs equal channel counts.
concatenate_audio(w1, w2) ==
    LET a == AdjustChannels(w1, w2)
    IN  [waveform1 |-> a[1], waveform2 |-> a[2],
         raised |-> Channels(a[1]) # Channels(a[2])]

\* The pairs of audio the two nodes are called with.
ChanArgs ==
    [fn : {"none"},
     w1 : {MakeTensor(1, c, L, 0) : c \in 1..MaxChannels, L \in 0..MaxLen},
     w2 : {MakeTensor(1, c, L, 5000) : c \in 1..MaxChannels, L \in 0..MaxLen},
     out : {[waveform1 |-> << >>, waveform2 |-> << >>, raised |-> FALSE]}]

Fx_MixAudio ==
    /\ fx.fn = "none"
    /\ fx' = [fx EXCEPT !.fn = "mix_audio", !.out = mix_audio(fx.w1, fx.w2)]
    /\ UNCHANGED <<gm, lib, loaded, mutex, live, memErr, api, th>>

Fx_ConcatenateAudio ==
    /\ fx.fn = "none"
    /\ fx' = [fx EXCEPT !.fn = "concatenate_audio",
                        !.out = concatenate_audio(fx.w1, fx.w2)]
    /\ UNCHANGED <<gm, lib, loaded, mutex, live, memErr, api, th>>

(* --------------------------- specifications --------------------------- *)

\* No get_library_manager call is in progress.
Gm0 ==
    [ref |-> 0, mgrs |-> << >>, loads |-> 0, env |-> None,
     pc |-> [t \in Threads |-> "idle"],
     base |-> [t \in Threads |-> None],
     gets |-> [t \in Threads |-> 0],
     got |-> {}]

\* No sample-arithmetic function has been called.
Fx0 == [fn |-> "none"]

\* After get_library_manager(): the manager is constructed and load_library
\* has run once; nothing executes, the mutex is free, the heap is empty.
InitWith(runs) ==
    /\ \E env \in LinuxEnvs :
          /\ lib = LoadLibrary(env).lib
          /\ loaded = LoadLibrary(env).loaded
    /\ mutex = None
    /\ live = {}
    /\ memErr = {}
    /\ api = Api0
    /\ th = [t \in Threads |-> Locals0(runs[t])]
    /\ gm = Gm0
    /\ fx = Fx0

\* One thread executes nodes, one after the other.
Init == InitWith([t \in Threads |-> IF t = "t1" THEN 0 ELSE MaxRuns])

Next ==
    \/ \E t \in Threads : Start(t)
    \/ \E t \in Threads : CompressStep(t)
    \/ \E t \in Threads : DuckStep(t)

Spec == Init /\ [][Next]_vars

\* Two threads each execute one node, concurrently.
ConcInputs ==
    {[kind |-> "compress", B |-> 1, C |-> 2, L |-> 1, SB |-> 0, SC |-> 0, SL |-> 0],
     [kind |-> "duck", B |-> 1, C |-> 2, L |-> 1, SB |-> 1, SC |-> 1, SL |-> 2]}

StartConc(t) == \E in \in ConcInputs : StartWith(t, in, 1)

InitConc == InitWith([t \in Threads |-> 0])

NextConc ==
    \/ \E t \in Threads : StartConc(t)
    \/ \E t \in Threads : CompressStep(t)
    \/ \E t \in Threads : DuckStep(t)

SpecConc == InitConc /\ [][NextConc]_vars

\* One thread executes a node; before and after it a client calls the
\* manager's wrappers directly.
NextApi ==
    \/ \E t \in Threads : StartConc(t)
    \/ \E t \in Threads : CompressStep(t)
    \/ \E t \in Threads : DuckStep(t)
    \/ Api_ProcessCompressor
    \/ Api_ProcessDucking
    \/ Api_FreeProcessingResult

SpecApi == Init /\ [][NextApi]_vars

\* One thread executes nodes with parameter values of the caller's choice.
StartParams(t) ==
    \E in \in ConcInputs, p \in ParamChoices :
        /\ th[t].pc \in {"idle", "done"}
        /\ th[t].runs < MaxRuns
        /\ Set(t, Entered(th[t].runs + 1, in, p))
        /\ UNCHANGED <<gm, fx, lib, loaded, mutex, live, memErr, api>>

NextParam ==
    \/ \E t \in Threads : StartParams(t)
    \/ \E t \in Threads : CompressStep(t)
    \/ \E t \in Threads : DuckStep(t)

SpecParam == Init /\ [][NextParam]_vars

\* Two threads each execute one node, concurrently, with a sample rate that
\* is an int or one that makes the wrapper raise; every thread that can take
\* a step eventually takes one (threads are scheduled, native calls return).
StartFair(t) ==
    \E in \in ConcInputs, p \in {DefaultParams, [DefaultParams EXCEPT !.rate = "float"]} :
        /\ th[t].pc \in {"idle", "done"}
        /\ th[t].runs < 1
        /\ Set(t, Entered(th[t].runs + 1, in, p))
        /\ UNCHANGED <<gm, fx, lib, loaded, mutex, live, memErr, api>>

NextFair ==
    \/ \E t \in Threads : StartFair(t)
    \/ \E t \in Threads : CompressStep(t)
    \/ \E t \in Threads : DuckStep(t)

Fairness ==
    \A t \in Threads : WF_vars(CompressStep(t)) /\ WF_vars(DuckStep(t))

SpecFair == InitConc /\ [][NextFair]_vars /\ Fairness

\* The module has been imported (_library_manager = None, line 231) on some
\* host; threads call get_library_manager.
InitMgr ==
    /\ lib = None
    /\ loaded = FALSE
    /\ mutex = None
    /\ live = {}
    /\ memErr = {}
    /\ api = Api0
    /\ th = [t \in Threads |-> Locals0(0)]
    /\ \E env \in AllEnvs : gm = [Gm0 EXCEPT !.env = env]
    /\ fx = Fx0

NextMgr ==
    \/ \E t \in Threads : Get_Check(t)
    \/ \E t \in Threads : Get_Construct(t)
    \/ \E t \in Threads : Get_Load(t)
    \/ \E t \in Threads : Get_Return(t)

SpecMgr == InitMgr /\ [][NextMgr]_vars

\* A sample-arithmetic node is called with any waveform and times; no other
\* node runs and the manager plays no part.
InitFx ==
    /\ lib = None
    /\ loaded = FALSE
    /\ mutex = None
    /\ live = {}
    /\ memErr = {}
    /\ api = Api0
    /\ th = [t \in Threads |-> Locals0(0)]
    /\ gm = Gm0
    /\ fx \in FxArgs

NextFx == Fx_TrimAudio \/ Fx_SetAudioLength

SpecFx == InitFx /\ [][NextFx]_vars

\* No node of the dynamics engine runs and the manager plays no part.
Quiet ==
    /\ lib = None
    /\ loaded = FALSE
    /\ mutex = None
    /\ live = {}
    /\ memErr = {}
    /\ api = Api0
    /\ th = [t \in Threads |-> Locals0(0)]
    /\ gm = Gm0

\* _apply_fade is called with any audio length and requested fade lengths.
InitFade == Quiet /\ fx \in FadeArgs

NextFade == Fx_ApplyFade

SpecFade == InitFade /\ [][NextFade]_vars

\* mix_audio or concatenate_audio is called with any two audio.
InitChan == Quiet /\ fx \in ChanArgs

NextChan == Fx_MixAudio \/ Fx_ConcatenateAudio

SpecChan == InitChan /\ [][NextChan]_vars

(* ------------------------------ claims -------------------------------- *)
Done(t) == th[t].pc = "done"

\* The waveform of the audio the node returned.
Returned(s) == IF s.ret = "orig" THEN s.mainIn ELSE s[s.wt]

\* The (batch, channel) positions of a tensor, batch-major.
Positions(w) ==
    LET C == IF Len(w) = 0 THEN 0 ELSE Len(w[1])
    IN  [k \in 1..(Len(w) * C) |-> <<((k - 1) \div C) + 1, ((k - 1) % C) + 1>>]

PositionSet(w) == {Positions(w)[k] : k \in 1..Len(Positions(w))}

\* The positions for which fn was called, in call order.
CallPositions(calls, fn) ==
    LET sel == SelectSeq(calls, LAMBDA x : x.fn = fn)
    IN  [k \in 1..Len(sel) |-> <<sel[k].b, sel[k].c>>]

\* C1 (as claimed): when apply_ducking has returned, every non-null result
\* handle it received from process_ducking has been passed to
\* free_processing_result, on every path.
C1_EveryHandleFreedAtReturn ==
    \A t \in Threads :
        (Done(t) /\ th[t].kind = "duck") => th[t].owned = {}

\* C2: no result handle is freed twice and none is read after it was freed,
\* across any sequence of apply_ducking executions.
C2_NoDoubleFreeNoUseAfterFree == memErr = {}

\* C2 witness: a second execution reads a result after the first one freed
\* results of its own.
C2_Witness ==
    \E t \in Threads :
        /\ th[t].runs = 2 /\ th[t].kind = "duck" /\ th[t].pc = "d_free"
        /\ \E k \in 1..Len(th[t].calls) : th[t].calls[k].fn = "FreeProcessingResult"

\* C3: the waveform a node returns has the batch count, channel count and
\* per-channel sample count of the main input, whatever length the engine
\* reported.
C3_ShapePreserved ==
    \A t \in Threads : Done(t) => SameShape(Returned(th[t]), In0(th[t]))

\* C3 witness: apply_ducking returned processed audio although a result was
\* shorter than the main channel.
C3_Witness ==
    \E t \in Threads :
        /\ Done(t) /\ th[t].kind = "duck" /\ th[t].ret = "processed"
        /\ th[t].shape = <<1, 2, 2>>
        /\ th[t].result.addr # Null /\ th[t].result.length = 1

C5_NullResultFallsBack ==
    \A t \in Threads :
        th[t].gotNull =>
            /\ Len(th[t].calls) = th[t].nullAt
            /\ th[t].pc \in {"d_unlock", "d_result", "done"}
            /\ Done(t) => th[t].ret = "orig"

\* C5 witness: NULL came back for the last of four channels and the node
\* returned.
C5_Witness ==
    \E t \in Threads :
        /\ Done(t) /\ th[t].gotNull /\ th[t].nullAt = 7
        /\ th[t].b = 2 /\ th[t].c = 2

\* C6: a thread is inside ProcessCompressor or ProcessDucking only while it
\* holds the global mutex, so no two such calls execute at the same time.
InProcess(t) == th[t].pc \in {"c_native", "d_native"}

C6_ProcessCallsSerialized ==
    /\ \A t \in Threads : InProcess(t) => mutex = t
    /\ \A t, u \in Threads : (InProcess(t) /\ InProcess(u)) => t = u

\* C6 witness: one execution is inside a native call while the other waits
\* for the mutex.
C6_Witness ==
    \E t, u \in Threads :
        /\ t # u /\ InProcess(t)
        /\ th[u].pc \in {"c_lock", "d_lock"}

C8_OncePerChannelInPlace ==
    \A t \in Threads :
        LET s == th[t]
            in == In0(s)
            out == Returned(s)
        IN  (Done(t) /\ loaded) =>
            /\ s.kind = "compress" =>
                  /\ s.ret = "processed"
                  /\ CallPositions(s.calls, "ProcessCompressor") =
                        (IF s.shape[3] = 0 THEN << >> ELSE Positions(in))
                  /\ \A b \in 1..Len(in) : \A c \in 1..Len(in[b]) :
                        out[b][c] = Compress(in[b][c], Len(in[b][c]))
            /\ (s.kind = "duck" /\ s.ret = "processed") =>
                  /\ CallPositions(s.calls, "ProcessDucking") = Positions(in)
                  /\ \A b \in 1..Len(in) : \A c \in 1..Len(in[b]) :
                        /\ [at |-> <<b, c>>, from |-> <<b, c>>] \in s.written
                        /\ \E n \in 0..Len(in[b][c]) :
                              out[b][c] = SliceAssign(Zeros(Len(in[b][c])),
                                                      Duck(in[b][c], n))

\* C8 witness: apply_compression finished on two batch items of two channels.
C8_Witness ==
    \E t \in Threads :
        /\ Done(t) /\ th[t].kind = "compress" /\ loaded
        /\ th[t].shape = <<2, 2, 2>>

\* C9: the caller's main and sidechain waveforms are never modified, and the
\* native processing calls only receive pointers to private copies.
C9_InputsUntouched ==
    \A t \in Threads :
        LET s == th[t] IN
        s.pc # "idle" =>
            /\ s.mainIn = In0(s)
            /\ s.sideIn = Side0(s)
            /\ \A k \in 1..Len(s.calls) :
                  s.calls[k].fn # "FreeProcessingResult" =>
                      /\ s.calls[k].loc \in PrivateLocs
                      /\ s.calls[k].sloc \in PrivateLocs

\* C9 witness: the in-place compressor has rewritten a channel and the
\* processed channel was written to the output.
C9_Witness ==
    \E t \in Threads :
        /\ Done(t) /\ th[t].kind = "compress" /\ th[t].ret = "processed"
        /\ th[t].shape[3] > 0 /\ th[t].shape[1] > 0
        /\ th[t].work # th[t].mainIn

\* C10: on zero-length input both nodes succeed: apply_compression makes no
\* native call and returns audio of the same empty shape; apply_ducking
\* returns zero-length audio, whatever the engine returned; neither raises.
C10_ZeroLengthNoOp ==
    \A t \in Threads :
        LET s == th[t] IN
        (Done(t) /\ s.shape[3] = 0) =>
            /\ ~s.raised
            /\ s.ret \in {"orig", "processed"}
            /\ SameShape(Returned(s), In0(s))
            /\ \A b \in 1..Len(Returned(s)) : \A c \in 1..Len(Returned(s)[b]) :
                  Returned(s)[b][c] = << >>
            /\ s.kind = "compress" =>
                  /\ s.calls = << >>
                  /\ loaded => s.ret = "processed"

\* C10 witness: apply_ducking on an empty main waveform got a result of
\* reported length 2 and returned.
C10_Witness ==
    \E t \in Threads :
        /\ Done(t) /\ th[t].kind = "duck" /\ th[t].shape[3] = 0
        /\ th[t].result.addr # Null /\ th[t].result.length = 2

\* C12: free_processing_result called with a null pointer makes no native
\* FreeProcessingResult call, returns nothing, and leaves the native heap as
\* it was, whether the manager is loaded or not (th' = th: the step is a
\* direct call, not a step of a node).
C12_FreeOfNullIsNoOp ==
    [][(th' = th /\ api'.fn = "free_processing_result" /\ api'.arg = Null)
          => /\ ~api'.native
             /\ api'.ret = None
             /\ api'.held = api.held
             /\ live' = live
             /\ memErr' = memErr]_vars

\* C12 witness: a loaded manager was asked to free NULL while the caller still
\* holds a live result.
C12_Witness ==
    /\ loaded /\ lib # None
    /\ api.fn = "free_processing_result" /\ api.arg = Null
    /\ api.held # {} /\ api.held \subseteq live

\* A thread is inside a native entry point of the library.
InNative(t) == th[t].pc \in {"c_native", "d_native", "d_freeing"}

\* C17: no native entry point runs concurrently with another: a thread inside
\* ProcessCompressor, ProcessDucking or FreeProcessingResult holds the global
\* mutex, so no two threads are inside the library at the same time.
C17_NativeCallsSerialized ==
    /\ \A t \in Threads : InNative(t) => mutex = t
    /\ \A t, u \in Threads : (InNative(t) /\ InNative(u)) => t = u

\* The ProcessDucking calls of an execution, as indexes into its calls.
DuckCalls(s) == {k \in 1..Len(s.calls) : s.calls[k].fn = "ProcessDucking"}

\* C20: every ProcessDucking call of batch item b gets the sidechain buffer
\* made for that batch item (the b-th sidechain_np array, so one pointer per
\* batch item and the same for all its channels), of the sidechain's length,
\* holding the average over the sidechain channels of batch item b (the
\* single channel itself when there is one).
C20_SameMonoSidechainPerBatchItem ==
    \A t \in Threads :
        LET s == th[t]
            side == Side0(s)
        IN  \A k \in DuckCalls(s) :
                LET call == s.calls[k]
                    chs == side[call.b]
                IN  /\ call.sloc = "scbuf"
                    /\ call.sgen = call.b
                    /\ call.slen = s.sshape[3]
                    /\ Len(call.sbuf) = s.sshape[3]
                    /\ \A i \in 1..s.sshape[3] :
                          call.sbuf[i] * Len(chs) = SumAt(chs, Len(chs), i)
                    /\ \A j \in DuckCalls(s) :
                          s.calls[j].b = call.b =>
                              /\ s.calls[j].sgen = call.sgen
                              /\ s.calls[j].sbuf = call.sbuf

\* C20 witness: a two-channel sidechain; two channels of one batch item were
\* ducked and then a channel of the next batch item.
C20_Witness ==
    \E t \in Threads :
        LET s == th[t] IN
        /\ s.kind = "duck" /\ s.sshape[2] = 2
        /\ \E i, j, k \in DuckCalls(s) :
              /\ i < j /\ j < k
              /\ s.calls[i].b = s.calls[j].b
              /\ s.calls[i].c # s.calls[j].c
              /\ s.calls[k].b # s.calls[j].b

\* The step of thread t reads and copies a non-null result (lines 892-905).
CopiesResult(t) ==
    /\ th[t].pc = "d_result"
    /\ th[t].result.addr # Null
    /\ th'[t] # th[t]

\* After the step, channel (b, c) of the output holds the first n samples of
\* the result followed by zeros, and every other channel is as it was.
FirstNCopied(s, s2, n) ==
    /\ s2.pc = "d_free"
    /\ Len(s2.work[s.b][s.c]) = s.shape[3]
    /\ \A i \in 1..s.shape[3] :
          s2.work[s.b][s.c][i] = IF i <= n THEN s.result.data[i] ELSE 0
    /\ \A p \in PositionSet(s.work) :
          p # <<s.b, s.c>> => s2.work[p[1]][p[2]] = s.work[p[1]][p[2]]

\* After the step, the node has returned main_audio and wrote nothing.
ReturnedOriginal(s, s2) ==
    /\ s2.pc = "done" /\ s2.ret = "orig" /\ ~s2.raised
    /\ s2.work = s.work

\* C19 as stated: a result length n with 0 <= n <= L fills the first n
\* samples of the channel and leaves n..L-1 zero; n > L or n < 0 writes
\* nothing and returns the original main_audio.
C19_ResultLengthAsStated ==
    [][\A t \in Threads :
          CopiesResult(t) =>
              LET s == th[t]
                  n == s.result.length
                  L == s.shape[3]
              IN  IF 0 <= n /\ n <= L
                  THEN FirstNCopied(s, th'[t], n)
                  ELSE ReturnedOriginal(s, th'[t])]_vars

\* C19 amended: as stated, except that a one-sample result for an empty
\* channel (n = 1, L = 0) is broadcast into the empty slice without an
\* error: nothing is written and the node goes on to free the result.
C19_ResultLengthCopied ==
    [][\A t \in Threads :
          CopiesResult(t) =>
              LET s == th[t]
                  n == s.result.length
                  L == s.shape[3]
              IN  IF 0 <= n /\ n <= L
                  THEN FirstNCopied(s, th'[t], n)
                  ELSE IF n = 1 /\ L = 0
                  THEN /\ th'[t].pc = "d_free"
                       /\ th'[t].work = s.work
                  ELSE ReturnedOriginal(s, th'[t])]_vars

\* C19 witness: a result shorter than the channel was copied: the first
\* sample comes from the result, the second is still zero.
C19_Witness ==
    \E t \in Threads :
        LET s == th[t] IN
        /\ s.pc = "d_free" /\ s.shape[3] = 2 /\ s.result.length = 1
        /\ s.work[s.b][s.c] = <<s.result.data[1], 0>>

\* The ranges INPUT_TYPES declares (lines 726-732, 812-815): threshold_db in
\* [-60, 0], ratio >= 1, attack_ms and release_ms > 0, mix in [0.0, 1.0].
ThresholdMin == -60
ThresholdMax == 0
RatioMin == 1
MixMax == 100

InRange(fn, p) ==
    /\ ThresholdMin <= p.threshold /\ p.threshold <= ThresholdMax
    /\ p.attack > 0 /\ p.release > 0
    /\ fn = "ProcessCompressor" =>
          /\ p.ratio >= RatioMin
          /\ 0 <= p.mix /\ p.mix <= MixMax

\* C11: no ProcessCompressor / ProcessDucking call is made with an
\* out-of-range parameter value (ratio < 1, attack or release <= 0, mix
\* outside [0, 1], threshold outside [-60, 0]).
C11_NoCallWithOutOfRangeParameter ==
    \A t \in Threads :
        \A k \in 1..Len(th[t].calls) :
            th[t].calls[k].fn \in {"ProcessCompressor", "ProcessDucking"} =>
                InRange(th[t].calls[k].fn, th[t].calls[k].params)

\* The thread is at the entry of a with interrupt_processing_mutex block.
Waiting(t) == th[t].pc \in {"c_lock", "d_lock"}

\* The thread is inside a with interrupt_processing_mutex block.
InWith(t) ==
    th[t].pc \in {"c_call", "c_native", "c_unlock", "d_call", "d_native", "d_unlock"}

\* C18: the global mutex is held by a thread only while the thread is inside
\* the with block of one process_compressor / process_ducking call: not
\* between channels, not after the node returned or an exception left the
\* call, and not when the thread is about to acquire it; and every thread
\* waiting for the mutex eventually holds it.
C18_MutexHeldForOneCallOnly ==
    /\ [](\A t \in Threads : mutex = t <=> InWith(t))
    /\ \A t \in Threads : Waiting(t) ~> (mutex = t)

\* C18 witness: the wrapper raised inside the with block of one thread, the
\* exception left the block, and the other thread holds the mutex.
C18_Witness ==
    \E t, u \in Threads :
        /\ t # u
        /\ th[t].exc /\ Done(t)
        /\ mutex = u /\ Len(th[u].calls) > 0

\* C13: at most one SoundFlowLibraryManager is ever constructed, load_library
\* is called at most once, and every get_library_manager call returns the
\* same instance.
C13_OneManagerLoadedOnce ==
    /\ Len(gm.mgrs) <= 1
    /\ gm.loads <= 1
    /\ Cardinality(gm.got) <= 1

\* A manager for this base name can be loaded on this host: a candidate file
\* exists and loads, and the library exports the three entry points.
Loadable(base, env) ==
    /\ base = LibBaseName
    /\ env.symbols
    /\ \E n \in Candidates(env) : n \in env.exists /\ n \in env.loadable

\* C14: load_library returns True exactly when a candidate library file was
\* loaded and its signatures were set up, and False in every other case
\* (unsupported platform, no candidate exists, every load fails, a symbol
\* is missing); loaded equals the value returned; and in every manager state
\* loaded = True implies lib is not None.
C14_LoadedIffLibraryUsable ==
    /\ \A k \in 1..Len(gm.mgrs) :
          LET m == gm.mgrs[k] IN
          /\ m.loads = 0 => (~m.loaded /\ m.lib = None)
          /\ m.loads > 0 =>
                /\ m.ret \in BOOLEAN
                /\ m.ret <=> Loadable(m.base, gm.env)
                /\ m.loaded = m.ret
          /\ m.loaded => m.lib # None
    /\ loaded => lib # None

\* C14 witness: on Windows the first candidate did not load and the second
\* did; the manager is loaded with the second one.
C14_Witness ==
    \E k \in 1..Len(gm.mgrs) :
        /\ gm.env.os = "nt"
        /\ gm.mgrs[k].loads > 0 /\ gm.mgrs[k].loaded
        /\ gm.mgrs[k].lib = LibNames(gm.env)[2]
        /\ LibNames(gm.env)[1] \in gm.env.exists

\* The output has the batch items and channels of the input.
ChannelsKept(out, w) ==
    /\ Len(out) = Len(w)
    /\ \A b \in 1..Len(w) : Len(out[b]) = Len(w[b])

\* C15: trim_audio returns the samples [start_samples, end_samples) of every
\* channel, with 0 <= start_samples <= end_samples <= total_samples for every
\* start and end (negative, beyond the audio, end before start); an end <= 0
\* selects through the end of the audio, a start <= 0 from its beginning.
C15_TrimWithinBounds ==
    fx.fn = "trim_audio" =>
        LET total == Len(fx.w[1][1])
            Cut(ch) == [i \in 1..(fx.end_samples - fx.start_samples) |->
                            ch[fx.start_samples + i]]
        IN  /\ 0 <= fx.start_samples
            /\ fx.start_samples <= fx.end_samples
            /\ fx.end_samples <= total
            /\ ChannelsKept(fx.out, fx.w)
            /\ \A p \in PositionSet(fx.w) :
                  fx.out[p[1]][p[2]] = Cut(fx.w[p[1]][p[2]])
            /\ fx.end <= 0 => fx.end_samples = total
            /\ fx.start <= 0 => fx.start_samples = 0

\* C15 witness: the end lies before the start and the start inside the
\* audio: end_samples was raised to start_samples and the result is empty.
C15_Witness ==
    /\ fx.fn = "trim_audio"
    /\ fx.end > 0 /\ fx.end < fx.start
    /\ fx.start_samples = fx.end_samples
    /\ 0 < fx.start_samples /\ fx.start_samples < Len(fx.w[1][1])
    /\ fx.out[1][1] = << >>

\* The outcome of set_audio_length for a target that is not negative.
LengthIsTarget ==
    LET current == Len(fx.w[1][1])
        target == fx.target_samples
        Fit(ch) == [i \in 1..target |-> IF i <= current THEN ch[i] ELSE 0]
    IN  /\ ChannelsKept(fx.out, fx.w)
        /\ \A p \in PositionSet(fx.w) :
              fx.out[p[1]][p[2]] = Fit(fx.w[p[1]][p[2]])
        /\ current = target => fx.out = fx.w

\* C16 as stated: for every length the result has exactly
\* int(length * sample_rate) samples per channel: the first target_samples
\* samples of a longer audio, a shorter audio followed by zeros, an audio of
\* that length unchanged.
C16_LengthIsTargetForEveryLength ==
    fx.fn = "set_audio_length" =>
        /\ \A b \in 1..Len(fx.out) : \A c \in 1..Len(fx.out[b]) :
              Len(fx.out[b][c]) = fx.target_samples
        /\ LengthIsTarget

\* C16 amended: that holds for every length with int(length * sample_rate)
\* >= 0; for a negative target -k the result is the audio without its last k
\* samples (empty when it has no more than k).
C16_LengthIsTargetUnlessNegative ==
    fx.fn = "set_audio_length" =>
        IF fx.target_samples >= 0
        THEN LengthIsTarget
        ELSE LET keep == Max(0, Len(fx.w[1][1]) + fx.target_samples)
                 Kept(ch) == [i \in 1..keep |-> ch[i]]
             IN  /\ ChannelsKept(fx.out, fx.w)
                 /\ \A p \in PositionSet(fx.w) :
                       fx.out[p[1]][p[2]] = Kept(fx.w[p[1]][p[2]])

\* C16 witness: a non-empty audio shorter than the target was padded.
C16_Witness ==
    /\ fx.fn = "set_audio_length"
    /\ 0 < Len(fx.w[1][1]) /\ Len(fx.w[1][1]) < fx.target_samples
    /\ Len(fx.out[1][1]) = fx.target_samples

\* Candidate n can be opened by manager m on this host: the file exists and
\* CDLL succeeds on it.
Opens(m, n) ==
    /\ m.base = LibBaseName
    /\ n \in gm.env.exists /\ n \in gm.env.loadable

\* C21: load_library goes through the platform's candidate names in list
\* order and stops at the first one that exists and loads: the candidates
\* gone through are a prefix of the list, none before the last of them
\* opened, and the manager holds that last one; when no candidate opens
\* (also when one exists and fails to load) the whole list was gone through
\* and the manager holds no library.
C21_FirstLoadableCandidateWins ==
    \A k \in 1..Len(gm.mgrs) :
        LET m == gm.mgrs[k]
            names == LibNames(gm.env)
            n == Len(m.tried)
        IN  m.loads > 0 =>
              /\ n <= Len(names)
              /\ \A i \in 1..n : m.tried[i] = names[i]
              /\ \A i \in 1..(n - 1) : ~Opens(m, names[i])
              /\ IF \E i \in 1..Len(names) : Opens(m, names[i])
                 THEN /\ n >= 1
                      /\ Opens(m, names[n])
                      /\ m.lib = names[n]
                 ELSE /\ n = Len(names)
                      /\ m.lib = None

\* C21 witness: on Windows the first candidate exists but fails to load and
\* the second opens: both were gone through, the manager holds the second.
C21_Witness ==
    \E k \in 1..Len(gm.mgrs) :
        LET m == gm.mgrs[k]
            names == LibNames(gm.env)
        IN  /\ Len(names) = 2
            /\ names[1] \in gm.env.exists /\ names[1] \notin gm.env.loadable
            /\ m.tried = names
            /\ m.lib = names[2]

\* _apply_fade has been called with fade lengths that are not negative.
Faded == fx.fn = "_apply_fade" /\ fx.fade_in >= 0 /\ fx.fade_out >= 0

\* The samples no fade multiplies.
Unfaded == (1..fx.audio_length) \ (fx.out.in_region \cup fx.out.out_region)

C23_ChannelCountsMatch ==
    fx.fn \in {"mix_audio", "concatenate_audio"} =>
        /\ Channels(fx.out.waveform1) = Channels(fx.out.waveform2)
        /\ ~fx.out.raised

====
